---- MODULE Spec2Model ----
(***************************************************************************)
(* django-db-signals: the interception layer of django_db_signals/hook.py  *)
(* around django.db.transaction, with the signal receivers and the host    *)
(* transaction manager it reads.                                           *)
(*                                                                         *)
(* A wrapped call is one action.  What the call did is kept in `call`:     *)
(* the ordered trace of what happened inside it (dispatches, receiver      *)
(* invocations, the original function starting and finishing, physical     *)
(* commits and rollbacks, error log lines) and the exception the caller    *)
(* observes.                                                               *)
(***************************************************************************)
EXTENDS Naturals, Sequences, FiniteSets

VARIABLES
    receivers,      \* signals.<channel>.receivers: channel -> sequence of handlers
    state,          \* host: alias -> stack of managed flags (transaction state)
    dirty,          \* host: alias -> is_dirty
    pending,        \* host: alias -> the connection holds uncommitted writes
    IS_DJANGO_12,   \* hook.py:13, fixed for the life of the process
    call,           \* the wrapped call that has just run, or NoCall
    history,        \* when observed: the steps of the outermost transaction
                    \* management block in progress, each with the
                    \* notifications it dispatched (the tests' log)
    tally           \* when counted: per connection, the dispatches so far of
                    \* pre_transaction_management and of
                    \* post_transaction_management

vars ==
    <<receivers, state, dirty, pending, IS_DJANGO_12, call, history, tally>>

-----------------------------------------------------------------------------
(* Bounds *)

\* the deepest nesting of transaction management blocks explored per alias
MaxDepth == 2
\* the largest number of connected receivers, over all channels
MaxReceivers == 2
\* the longest observed block, in steps (wrapped calls and writes)
MaxHistory == 5
\* the largest count of dispatches kept per connection and channel
MaxTally == 2

-----------------------------------------------------------------------------
(* Names *)

Channels ==
    {"pre_commit", "post_commit", "pre_rollback", "post_rollback",
     "pre_transaction_management", "post_transaction_management"}

\* what a receiver does when invoked
HandlerKinds == {"ok", "raise"}

None == "None"
DEFAULT_DB_ALIAS == "default"
Aliases == {"default", "alternate"}
Usings == {None} \cup Aliases

\* settings.TRANSACTIONS_MANAGED is not set by tests/settings.py: the default
TRANSACTIONS_MANAGED == FALSE

\* conn, were it to ignore the alias
conn_ignores_alias(alias) == DEFAULT_DB_ALIAS

conn(alias) == IF alias = None THEN DEFAULT_DB_ALIAS ELSE alias

-----------------------------------------------------------------------------
(* Exceptions and trace events *)

NoExc == [type |-> "None", channel |-> "", idx |-> 0]
HandlerError(name, i) == [type |-> "HandlerError", channel |-> name, idx |-> i]
DatabaseError == [type |-> "DatabaseError", channel |-> "", idx |-> 0]
TransactionManagementError ==
    [type |-> "TransactionManagementError", channel |-> "", idx |-> 0]

Ev(type, name, sender, idx) ==
    [type |-> type, name |-> name, sender |-> sender, idx |-> idx]

-----------------------------------------------------------------------------
(* Dispatch *)

RECURSIVE SendFrom(_, _, _, _)
SendFrom(rs, name, sender, i) ==
    IF i > Len(rs) THEN [ev |-> <<>>, exc |-> NoExc]
    ELSE IF rs[i] = "raise"
         THEN [ev |-> <<Ev("recv", name, sender, i)>>, exc |-> HandlerError(name, i)]
         ELSE LET rest == SendFrom(rs, name, sender, i + 1)
              IN  [ev |-> <<Ev("recv", name, sender, i)>> \o rest.ev, exc |-> rest.exc]

\* signals.<name>.send(sender=...): the first failing receiver ends the dispatch
send(name, sender) ==
    LET r == SendFrom(receivers[name], name, sender, 1)
    IN  [ev |-> <<Ev("send", name, sender, 0)>> \o r.ev, exc |-> r.exc]

\* signal.send_robust: every receiver runs, its failure becomes its response
send_robust(name, sender) ==
    [i \in 1..Len(receivers[name]) |->
        IF receivers[name][i] = "raise" THEN "Exception" ELSE "None"]

RECURSIVE LogErrors(_, _, _, _)
LogErrors(responses, name, sender, i) ==
    IF i > Len(responses) THEN <<>>
    ELSE (IF responses[i] = "Exception"
          THEN <<Ev("log", name, sender, i)>> ELSE <<>>)
         \o LogErrors(responses, name, sender, i + 1)

\* send_robust_and_log_errors, were it to dispatch with send: the first failing
\* receiver ends the dispatch and nothing is logged
send_robust_and_log_errors_strict(name, sender) == send(name, sender).ev

send_robust_and_log_errors(name, sender) ==
    LET responses == send_robust(name, sender)
    IN  <<Ev("send", name, sender, 0)>>
        \o [i \in 1..Len(responses) |-> Ev("recv", name, sender, i)]
        \o LogErrors(responses, name, sender, 1)

-----------------------------------------------------------------------------
(* The host transaction manager, django.db.transaction.  h is the host      *)
(* state [state, dirty, pending]; every operation yields the new host       *)
(* state, the trace of what it did and the exception it raised.             *)

Host == [state |-> state, dirty |-> dirty, pending |-> pending]

Res(h, ev, exc) == [h |-> h, ev |-> ev, exc |-> exc]

\* the host's transaction state for one alias
OfAlias(h, a) ==
    [state |-> h.state[a], dirty |-> h.dirty[a], pending |-> h.pending[a]]

is_managed(h, using) ==
    LET s == h.state[conn(using)]
    IN  IF Len(s) > 0 THEN s[Len(s)] ELSE TRANSACTIONS_MANAGED

is_dirty(h, using) == h.dirty[conn(using)]

\* connection._commit() / connection._rollback(): the physical operation
db_commit(h, a, fails) ==
    IF fails THEN Res(h, <<>>, DatabaseError)
    ELSE Res([h EXCEPT !.pending[a] = FALSE], <<Ev("db", "commit", a, 0)>>, NoExc)

db_rollback(h, a, fails) ==
    IF fails THEN Res(h, <<>>, DatabaseError)
    ELSE Res([h EXCEPT !.pending[a] = FALSE], <<Ev("db", "rollback", a, 0)>>, NoExc)

set_clean(h, a) == [h EXCEPT !.dirty[a] = FALSE]
set_dirty(h, a) == [h EXCEPT !.dirty[a] = TRUE]

target_commit(h, using, fails) ==
    LET r == db_commit(h, conn(using), fails)
    IN  IF r.exc # NoExc THEN r ELSE Res(set_clean(r.h, conn(using)), r.ev, NoExc)

target_rollback(h, using, fails) ==
    LET r == db_rollback(h, conn(using), fails)
    IN  IF r.exc # NoExc THEN r ELSE Res(set_clean(r.h, conn(using)), r.ev, NoExc)

target_commit_unless_managed(h, using, fails) ==
    IF ~is_managed(h, using)
    THEN db_commit(h, conn(using), fails)
    ELSE Res(set_dirty(h, conn(using)), <<>>, NoExc)

target_rollback_unless_managed(h, using, fails) ==
    IF ~is_managed(h, using)
    THEN db_rollback(h, conn(using), fails)
    ELSE Res(set_dirty(h, conn(using)), <<>>, NoExc)

target_enter_transaction_management(h, using) ==
    LET a == conn(using)
        s == h.state[a]
        top == IF Len(s) > 0 THEN s[Len(s)] ELSE TRANSACTIONS_MANAGED
    IN  Res([h EXCEPT !.state[a] = Append(s, top)], <<>>, NoExc)

target_managed(h, flag, using, fails) ==
    LET a == conn(using)
        s == h.state[a]
    IN  IF Len(s) = 0 THEN Res(h, <<>>, TransactionManagementError)
        ELSE LET h1 == [h EXCEPT !.state[a] = [s EXCEPT ![Len(s)] = flag]]
             IN  IF ~flag /\ h.dirty[a]
                 THEN LET r == db_commit(h1, a, fails)
                      IN  IF r.exc # NoExc THEN r
                          ELSE Res(set_clean(r.h, a), r.ev, NoExc)
                 ELSE Res(h1, <<>>, NoExc)

-----------------------------------------------------------------------------
(* patch: the wrapper is a context manager around the original function     *)

\* patch, were the original called although the wrapper raised before its yield
patch_ignores_veto(name, sender, h0, pre, tgt, post, fin) ==
    IF pre.exc # NoExc
    THEN Res(tgt.h,
             pre.ev \o <<Ev("orig", name, sender, 0)>> \o tgt.ev
                    \o <<Ev("origend", name, sender, 0)>>,
             pre.exc)
    ELSE Res(tgt.h,
             pre.ev \o <<Ev("orig", name, sender, 0)>> \o tgt.ev
                    \o <<Ev("origend", name, sender, IF tgt.exc # NoExc THEN 1 ELSE 0)>>
                    \o (IF tgt.exc # NoExc THEN fin ELSE post),
             tgt.exc)

\* patch, were the wrapper resumed after its yield although the original raised
patch_post_on_failure(name, sender, h0, pre, tgt, post, fin) ==
    IF pre.exc # NoExc
    THEN Res(h0, pre.ev, pre.exc)
    ELSE Res(tgt.h,
             pre.ev \o <<Ev("orig", name, sender, 0)>> \o tgt.ev
                    \o <<Ev("origend", name, sender, IF tgt.exc # NoExc THEN 1 ELSE 0)>>
                    \o post,
             tgt.exc)

\* patch, were the wrapper to catch what the original raises
patch_swallows_failure(name, sender, h0, pre, tgt, post, fin) ==
    IF pre.exc # NoExc
    THEN Res(h0, pre.ev, pre.exc)
    ELSE Res(tgt.h,
             pre.ev \o <<Ev("orig", name, sender, 0)>> \o tgt.ev
                    \o <<Ev("origend", name, sender, IF tgt.exc # NoExc THEN 1 ELSE 0)>>
                    \o (IF tgt.exc # NoExc THEN fin ELSE post),
             NoExc)

\* h0: host state at the call; pre: the wrapper up to its yield; tgt: the
\* original function, run after pre; post: the wrapper after its yield when
\* the original returned; fin: what the wrapper still runs when the original
\* raised (its finally block, empty when it has none)
patch(name, sender, h0, pre, tgt, post, fin) ==
    IF pre.exc # NoExc
    THEN Res(h0, pre.ev, pre.exc)
    ELSE IF tgt.exc # NoExc
         THEN Res(tgt.h,
                  pre.ev \o <<Ev("orig", name, sender, 0)>> \o tgt.ev
                         \o <<Ev("origend", name, sender, 1)>> \o fin,
                  tgt.exc)
         ELSE Res(tgt.h,
                  pre.ev \o <<Ev("orig", name, sender, 0)>> \o tgt.ev
                         \o <<Ev("origend", name, sender, 0)>> \o post,
                  NoExc)

NoPre == [ev |-> <<>>, exc |-> NoExc]

\* commit, were it to notify only when the transaction is dirty
commit_only_when_dirty(h, using, fails) ==
    LET connection == conn(using)
    IN  IF is_dirty(h, using)
        THEN patch("commit", connection, h,
                   send("pre_commit", connection),
                   target_commit(h, using, fails),
                   send_robust_and_log_errors("post_commit", connection),
                   <<>>)
        ELSE patch("commit", connection, h, NoPre,
                   target_commit(h, using, fails), <<>>, <<>>)

commit(h, using, fails) ==
    LET connection == conn(using)
    IN  patch("commit", connection, h,
              send("pre_commit", connection),
              target_commit(h, using, fails),
              send_robust_and_log_errors("post_commit", connection),
              <<>>)

\* commit_unless_managed, were its managed branch to end without a yield
commit_unless_managed_skips_original(h, using, fails) ==
    LET connection == conn(using)
    IN  IF ~is_managed(h, using)
        THEN patch("commit_unless_managed", connection, h,
                   send("pre_commit", connection),
                   target_commit_unless_managed(h, using, fails),
                   send_robust_and_log_errors("post_commit", connection),
                   <<>>)
        ELSE Res(h, <<>>, NoExc)

\* commit_unless_managed, were it to notify whether or not the alias is managed
commit_unless_managed_always(h, using, fails) ==
    LET connection == conn(using)
    IN  patch("commit_unless_managed", connection, h,
              send("pre_commit", connection),
              target_commit_unless_managed(h, using, fails),
              send_robust_and_log_errors("post_commit", connection),
              <<>>)

commit_unless_managed(h, using, fails) ==
    LET connection == conn(using)
    IN  IF ~is_managed(h, using)
        THEN patch("commit_unless_managed", connection, h,
                   send("pre_commit", connection),
                   target_commit_unless_managed(h, using, fails),
                   send_robust_and_log_errors("post_commit", connection),
                   <<>>)
        ELSE patch("commit_unless_managed", connection, h,
                   NoPre,
                   target_commit_unless_managed(h, using, fails),
                   <<>>, <<>>)

\* enter_transaction_management, were it to yield without sending
enter_without_notification(h, using) ==
    patch("enter_transaction_management", conn(using), h,
          NoPre,
          target_enter_transaction_management(h, using),
          <<>>, <<>>)

enter_transaction_management(h, using) ==
    patch("enter_transaction_management", conn(using), h,
          send("pre_transaction_management", conn(using)),
          target_enter_transaction_management(h, using),
          <<>>, <<>>)

rollback(h, using, fails) ==
    LET connection == conn(using)
    IN  patch("rollback", connection, h,
              send("pre_rollback", connection),
              target_rollback(h, using, fails),
              send_robust_and_log_errors("post_rollback", connection),
              <<>>)

\* rollback_unless_managed, were its test of is_managed inverted
rollback_unless_managed_inverted(h, using, fails) ==
    LET connection == conn(using)
    IN  IF is_managed(h, using)
        THEN patch("rollback_unless_managed", connection, h,
                   send("pre_rollback", connection),
                   target_rollback_unless_managed(h, using, fails),
                   send_robust_and_log_errors("post_rollback", connection),
                   <<>>)
        ELSE patch("rollback_unless_managed", connection, h,
                   NoPre,
                   target_rollback_unless_managed(h, using, fails),
                   <<>>, <<>>)

rollback_unless_managed(h, using, fails) ==
    LET connection == conn(using)
    IN  IF ~is_managed(h, using)
        THEN patch("rollback_unless_managed", connection, h,
                   send("pre_rollback", connection),
                   target_rollback_unless_managed(h, using, fails),
                   send_robust_and_log_errors("post_rollback", connection),
                   <<>>)
        ELSE patch("rollback_unless_managed", connection, h,
                   NoPre,
                   target_rollback_unless_managed(h, using, fails),
                   <<>>, <<>>)

\* managed, were post_commit sent in a finally block
managed_post_in_finally(h, flag, using, fails) ==
    LET should_commit == ~flag /\ is_dirty(h, using)
        connection == conn(using)
        post == IF should_commit
                THEN send_robust_and_log_errors("post_commit", connection)
                ELSE <<>>
    IN  patch("managed", connection, h,
              IF should_commit THEN send("pre_commit", connection) ELSE NoPre,
              target_managed(h, flag, using, fails),
              post, post)

\* managed, were the flag left out of should_commit
managed_ignores_flag(h, flag, using, fails) ==
    LET should_commit == is_dirty(h, using)
        connection == conn(using)
    IN  patch("managed", connection, h,
              IF should_commit THEN send("pre_commit", connection) ELSE NoPre,
              target_managed(h, flag, using, fails),
              IF should_commit
              THEN send_robust_and_log_errors("post_commit", connection)
              ELSE <<>>,
              <<>>)

managed(h, flag, using, fails) ==
    LET should_commit == ~flag /\ is_dirty(h, using)
        connection == conn(using)
    IN  patch("managed", connection, h,
              IF should_commit THEN send("pre_commit", connection) ELSE NoPre,
              target_managed(h, flag, using, fails),
              IF should_commit
              THEN send_robust_and_log_errors("post_commit", connection)
              ELSE <<>>,
              <<>>)

\* The host's leave.  A dirty block is rolled back and the management error
\* raised: Django 1.2 rolls back through the module's (patched) rollback(),
\* later versions through the connection.
target_leave_transaction_management(h, using, fails) ==
    LET a == conn(using)
        s == h.state[a]
    IN  IF Len(s) = 0 THEN Res(h, <<>>, TransactionManagementError)
        ELSE LET h1 == [h EXCEPT !.state[a] = SubSeq(s, 1, Len(s) - 1)]
             IN  IF h1.dirty[a]
                 THEN LET r == IF IS_DJANGO_12 THEN rollback(h1, a, fails)
                               ELSE target_rollback(h1, a, fails)
                      IN  IF r.exc # NoExc THEN r
                          ELSE Res(r.h, r.ev, TransactionManagementError)
                 ELSE Res(h1, <<>>, NoExc)

\* leave_transaction_management, were is_dirty read once the original has left
leave_reads_dirty_after_leaving(h, using, fails) ==
    LET connection == conn(using)
        tgt == target_leave_transaction_management(h, using, fails)
        was_dirty == is_dirty(tgt.h, using)
        notify == was_dirty /\ ~IS_DJANGO_12
        finally ==
            (IF notify
             THEN send_robust_and_log_errors("post_rollback", connection)
             ELSE <<>>)
            \o send_robust_and_log_errors("post_transaction_management", connection)
    IN  patch("leave_transaction_management", connection, h,
              NoPre, tgt, finally, finally)

\* leave_transaction_management, were it not to read is_dirty
leave_ignores_dirty(h, using, fails) ==
    LET connection == conn(using)
        notify == ~IS_DJANGO_12
        finally ==
            (IF notify
             THEN send_robust_and_log_errors("post_rollback", connection)
             ELSE <<>>)
            \o send_robust_and_log_errors("post_transaction_management", connection)
    IN  patch("leave_transaction_management", connection, h,
              IF notify THEN send("pre_rollback", connection) ELSE NoPre,
              target_leave_transaction_management(h, using, fails),
              finally, finally)

\* leave_transaction_management, were it to read is_dirty without its using
leave_reads_default_alias(h, using, fails) ==
    LET connection == conn(using)
        was_dirty == is_dirty(h, None)
        notify == was_dirty /\ ~IS_DJANGO_12
        finally ==
            (IF notify
             THEN send_robust_and_log_errors("post_rollback", connection)
             ELSE <<>>)
            \o send_robust_and_log_errors("post_transaction_management", connection)
    IN  patch("leave_transaction_management", connection, h,
              IF notify THEN send("pre_rollback", connection) ELSE NoPre,
              target_leave_transaction_management(h, using, fails),
              finally, finally)

\* leave_transaction_management, were IS_DJANGO_12 left out of its tests
leave_always_notifies(h, using, fails) ==
    LET connection == conn(using)
        was_dirty == is_dirty(h, using)
        finally ==
            (IF was_dirty
             THEN send_robust_and_log_errors("post_rollback", connection)
             ELSE <<>>)
            \o send_robust_and_log_errors("post_transaction_management", connection)
    IN  patch("leave_transaction_management", connection, h,
              IF was_dirty THEN send("pre_rollback", connection) ELSE NoPre,
              target_leave_transaction_management(h, using, fails),
              finally, finally)

\* leave_transaction_management, were pre_rollback sent inside the try block
leave_pre_inside_try(h, using, fails) ==
    LET connection == conn(using)
        was_dirty == is_dirty(h, using)
        notify == was_dirty /\ ~IS_DJANGO_12
        pre == IF notify THEN send("pre_rollback", connection) ELSE NoPre
        finally ==
            (IF notify
             THEN send_robust_and_log_errors("post_rollback", connection)
             ELSE <<>>)
            \o send_robust_and_log_errors("post_transaction_management", connection)
    IN  patch("leave_transaction_management", connection, h,
              IF pre.exc # NoExc
              THEN [ev |-> pre.ev \o finally, exc |-> pre.exc] ELSE pre,
              target_leave_transaction_management(h, using, fails),
              finally, finally)

\* leave_transaction_management, were its post notifications not in a finally
\* block
leave_without_finally(h, using, fails) ==
    LET connection == conn(using)
        was_dirty == is_dirty(h, using)
        notify == was_dirty /\ ~IS_DJANGO_12
    IN  patch("leave_transaction_management", connection, h,
              IF notify THEN send("pre_rollback", connection) ELSE NoPre,
              target_leave_transaction_management(h, using, fails),
              (IF notify
               THEN send_robust_and_log_errors("post_rollback", connection)
               ELSE <<>>)
              \o send_robust_and_log_errors("post_transaction_management", connection),
              <<>>)

\* leave_transaction_management, were its post notifications sent before the
\* yield
leave_notifies_before_leaving(h, using, fails) ==
    LET connection == conn(using)
        was_dirty == is_dirty(h, using)
        notify == was_dirty /\ ~IS_DJANGO_12
        pre == IF notify THEN send("pre_rollback", connection) ELSE NoPre
        finally ==
            (IF notify
             THEN send_robust_and_log_errors("post_rollback", connection)
             ELSE <<>>)
            \o send_robust_and_log_errors("post_transaction_management", connection)
    IN  patch("leave_transaction_management", connection, h,
              IF pre.exc # NoExc THEN pre
              ELSE [ev |-> pre.ev \o finally, exc |-> NoExc],
              target_leave_transaction_management(h, using, fails),
              <<>>, <<>>)

leave_transaction_management(h, using, fails) ==
    LET connection == conn(using)
        was_dirty == is_dirty(h, using)
        notify == was_dirty /\ ~IS_DJANGO_12
        finally ==
            (IF notify
             THEN send_robust_and_log_errors("post_rollback", connection)
             ELSE <<>>)
            \o send_robust_and_log_errors("post_transaction_management", connection)
    IN  patch("leave_transaction_management", connection, h,
              IF notify THEN send("pre_rollback", connection) ELSE NoPre,
              target_leave_transaction_management(h, using, fails),
              finally, finally)


\* the original function patch looks up for a name, applied to the arguments of
\* a call
TargetOf(op, h, using, flag, fails) ==
    CASE op = "commit" -> target_commit(h, using, fails)
      [] op = "commit_unless_managed" -> target_commit_unless_managed(h, using, fails)
      [] op = "enter_transaction_management" ->
            target_enter_transaction_management(h, using)
      [] op = "leave_transaction_management" ->
            target_leave_transaction_management(h, using, fails)
      [] op = "managed" -> target_managed(h, flag, using, fails)
      [] op = "rollback" -> target_rollback(h, using, fails)
      [] op = "rollback_unless_managed" ->
            target_rollback_unless_managed(h, using, fails)

\* the patched function installed under a name, applied to the arguments of a
\* call
WrappedOf(op, h, using, flag, fails) ==
    CASE op = "commit" -> commit(h, using, fails)
      [] op = "commit_unless_managed" -> commit_unless_managed(h, using, fails)
      [] op = "enter_transaction_management" -> enter_transaction_management(h, using)
      [] op = "leave_transaction_management" ->
            leave_transaction_management(h, using, fails)
      [] op = "managed" -> managed(h, flag, using, fails)
      [] op = "rollback" -> rollback(h, using, fails)
      [] op = "rollback_unless_managed" -> rollback_unless_managed(h, using, fails)

-----------------------------------------------------------------------------
(* State machine *)

NoCall ==
    [op |-> "none", using |-> None, flag |-> FALSE, fails |-> FALSE,
     before |-> [state |-> <<>>, dirty |-> FALSE, pending |-> FALSE],
     ev |-> <<>>, exc |-> NoExc]

\* the channels dispatched on, in order
RECURSIVE ChannelsOf(_)
ChannelsOf(ev) ==
    IF ev = <<>> THEN <<>>
    ELSE (IF Head(ev).type = "send" THEN <<Head(ev).name>> ELSE <<>>)
         \o ChannelsOf(Tail(ev))

\* a step of a block as the history keeps it: the operation, its arguments,
\* whether the alias was dirty when it began, what it raised and the channels
\* it dispatched on
Entry(op, using, flag, r) ==
    [op |-> op, using |-> using, flag |-> flag, dirty |-> is_dirty(Host, using),
     exc |-> r.exc, log |-> ChannelsOf(r.ev)]

\* the history after a step: an enter call made outside transaction
\* management starts it afresh, a step made under transaction management is
\* added to it, any other step is not part of a block
Recorded(e) ==
    IF ~history.on THEN history
    ELSE IF Len(state[conn(e.using)]) = 0
         THEN IF e.op = "enter_transaction_management"
              THEN [history EXCEPT !.entries = <<e>>]
              ELSE history
         ELSE [history EXCEPT !.entries = Append(@, e)]

NoHistory == [on |-> FALSE, entries |-> <<>>]

\* the block the history holds is over: its alias is outside transaction
\* management again
Closed ==
    /\ history.entries # <<>>
    /\ Len(state[conn(history.entries[1].using)]) = 0

\* the number of dispatches on a channel with a sender in a trace
Dispatches(ev, name, sender) ==
    Cardinality({i \in DOMAIN ev : /\ ev[i].type = "send"
                                   /\ ev[i].name = name
                                   /\ ev[i].sender = sender})

\* the counts after a call with outcome r
Tallied(r) ==
    IF ~tally.on THEN tally
    ELSE [tally EXCEPT
            !.pre = [a \in Aliases |->
                tally.pre[a] + Dispatches(r.ev, "pre_transaction_management", a)],
            !.post = [a \in Aliases |->
                tally.post[a] + Dispatches(r.ev, "post_transaction_management", a)]]

NoTally ==
    [on |-> FALSE, pre |-> [a \in Aliases |-> 0], post |-> [a \in Aliases |-> 0]]

NumReceivers == Len(receivers["pre_commit"]) + Len(receivers["post_commit"])
    + Len(receivers["pre_rollback"]) + Len(receivers["post_rollback"])
    + Len(receivers["pre_transaction_management"])
    + Len(receivers["post_transaction_management"])

Init ==
    /\ receivers = [c \in Channels |-> <<>>]
    /\ state = [a \in Aliases |-> <<>>]
    /\ dirty = [a \in Aliases |-> FALSE]
    /\ pending = [a \in Aliases |-> FALSE]
    /\ IS_DJANGO_12 \in BOOLEAN
    /\ call = NoCall
    /\ history = NoHistory
    /\ tally = NoTally

\* signal.connect(handler)
Connect(c, k) ==
    /\ call = NoCall
    /\ NumReceivers < MaxReceivers
    /\ receivers' = [receivers EXCEPT ![c] = Append(@, k)]
    /\ UNCHANGED <<state, dirty, pending, IS_DJANGO_12, call, history, tally>>

\* signal.disconnect(handler)
Disconnect(c, i) ==
    /\ call = NoCall
    /\ i \in 1..Len(receivers[c])
    /\ receivers' = [receivers EXCEPT ![c] =
            SubSeq(@, 1, i - 1) \o SubSeq(@, i + 1, Len(@))]
    /\ UNCHANGED <<state, dirty, pending, IS_DJANGO_12, call, history, tally>>

\* a statement executed through a cursor of the alias's connection; under
\* managed mode the host marks the transaction dirty
Write(a) ==
    /\ call = NoCall
    /\ pending' = [pending EXCEPT ![a] = TRUE]
    /\ dirty' = IF is_managed(Host, a) THEN [dirty EXCEPT ![a] = TRUE] ELSE dirty
    /\ history' = Recorded(Entry("write", a, FALSE, Res(Host, <<>>, NoExc)))
    /\ UNCHANGED <<receivers, state, IS_DJANGO_12, call, tally>>

\* the outcome r of a wrapped call becomes the host state and the call record
Finish(op, using, flag, fails, r) ==
    /\ state' = r.h.state
    /\ dirty' = r.h.dirty
    /\ pending' = r.h.pending
    /\ call' = [op |-> op, using |-> using, flag |-> flag, fails |-> fails,
                before |-> OfAlias(Host, conn(using)),
                ev |-> r.ev, exc |-> r.exc]
    /\ history' = Recorded(Entry(op, using, flag, r))
    /\ tally' = Tallied(r)
    /\ UNCHANGED <<receivers, IS_DJANGO_12>>

CallCommit(using, fails) ==
    /\ call = NoCall
    /\ Finish("commit", using, FALSE, fails, commit(Host, using, fails))

CallCommitUnlessManaged(using, fails) ==
    /\ call = NoCall
    /\ Finish("commit_unless_managed", using, FALSE, fails,
              commit_unless_managed(Host, using, fails))

CallEnter(using) ==
    /\ call = NoCall
    /\ Len(state[conn(using)]) < MaxDepth
    /\ Finish("enter_transaction_management", using, FALSE, FALSE,
              enter_transaction_management(Host, using))

CallLeave(using, fails) ==
    /\ call = NoCall
    /\ Finish("leave_transaction_management", using, FALSE, fails,
              leave_transaction_management(Host, using, fails))

CallManaged(flag, using, fails) ==
    /\ call = NoCall
    /\ Finish("managed", using, flag, fails, managed(Host, flag, using, fails))

CallRollback(using, fails) ==
    /\ call = NoCall
    /\ Finish("rollback", using, FALSE, fails, rollback(Host, using, fails))

CallRollbackUnlessManaged(using, fails) ==
    /\ call = NoCall
    /\ Finish("rollback_unless_managed", using, FALSE, fails,
              rollback_unless_managed(Host, using, fails))

\* the caller has seen the outcome and goes on; a block that is over is no
\* longer observed
Return ==
    /\ call # NoCall
    /\ call' = NoCall
    /\ history' = IF Closed THEN [history EXCEPT !.entries = <<>>] ELSE history
    /\ UNCHANGED <<receivers, state, dirty, pending, IS_DJANGO_12, tally>>

\* the steps the program can take with the wrapped calls made on the aliases U
Step(U) ==
    \/ \E c \in Channels, k \in HandlerKinds : Connect(c, k)
    \/ \E c \in Channels, i \in 1..MaxReceivers : Disconnect(c, i)
    \/ \E using \in U : Write(conn(using))
    \/ \E using \in U, fails \in BOOLEAN : CallCommit(using, fails)
    \/ \E using \in U, fails \in BOOLEAN : CallCommitUnlessManaged(using, fails)
    \/ \E using \in U : CallEnter(using)
    \/ \E using \in U, fails \in BOOLEAN : CallLeave(using, fails)
    \/ \E using \in U, flag \in BOOLEAN, fails \in BOOLEAN :
            CallManaged(flag, using, fails)
    \/ \E using \in U, fails \in BOOLEAN : CallRollback(using, fails)
    \/ \E using \in U, fails \in BOOLEAN : CallRollbackUnlessManaged(using, fails)
    \/ Return

\* every call is made on the default connection, with using left at its
\* default; named aliases are called in SpecAliases
Next == Step({None})

Spec == Init /\ [][Next]_vars

\* the receivers the tests install: one recording handler on each channel,
\* and these with a handler that raises added on one channel
Fixture == [c \in Channels |-> <<"ok">>]
Buggy(c) == [Fixture EXCEPT ![c] = Append(@, "raise")]
Installed == {Fixture, Buggy("pre_rollback")}

\* the program of the tests: the receivers are connected once, then wrapped
\* calls are made on both connections under each of their names
InitAliases ==
    /\ receivers \in Installed
    /\ state = [a \in Aliases |-> <<>>]
    /\ dirty = [a \in Aliases |-> FALSE]
    /\ pending = [a \in Aliases |-> FALSE]
    /\ IS_DJANGO_12 \in BOOLEAN
    /\ call = NoCall
    /\ history = NoHistory
    /\ tally = NoTally

NextAliases ==
    \/ \E using \in Usings : Write(conn(using))
    \/ \E using \in Usings, fails \in BOOLEAN : CallCommit(using, fails)
    \/ \E using \in Usings, fails \in BOOLEAN : CallCommitUnlessManaged(using, fails)
    \/ \E using \in Usings : CallEnter(using)
    \/ \E using \in Usings, fails \in BOOLEAN : CallLeave(using, fails)
    \/ \E using \in Usings, flag \in BOOLEAN, fails \in BOOLEAN :
            CallManaged(flag, using, fails)
    \/ \E using \in Usings, fails \in BOOLEAN : CallRollback(using, fails)
    \/ \E using \in Usings, fails \in BOOLEAN : CallRollbackUnlessManaged(using, fails)
    \/ Return

SpecAliases == InitAliases /\ [][NextAliases]_vars

\* the program of the block tests: the receivers are connected once and the
\* steps of each transaction management block on the default connection are
\* observed
InitBlock ==
    /\ receivers = Fixture
    /\ state = [a \in Aliases |-> <<>>]
    /\ dirty = [a \in Aliases |-> FALSE]
    /\ pending = [a \in Aliases |-> FALSE]
    /\ IS_DJANGO_12 \in BOOLEAN
    /\ call = NoCall
    /\ history = [on |-> TRUE, entries |-> <<>>]
    /\ tally = NoTally

\* a further step of the block in progress can be observed, or no block is
\* in progress
CanRecord ==
    Len(state[DEFAULT_DB_ALIAS]) = 0 \/ Len(history.entries) < MaxHistory

NextBlock ==
    \/ CanRecord /\ Write(DEFAULT_DB_ALIAS)
    \/ \E fails \in BOOLEAN : CanRecord /\ CallCommit(None, fails)
    \/ \E fails \in BOOLEAN : CanRecord /\ CallCommitUnlessManaged(None, fails)
    \/ CanRecord /\ CallEnter(None)
    \/ \E fails \in BOOLEAN : CanRecord /\ CallLeave(None, fails)
    \/ \E flag \in BOOLEAN, fails \in BOOLEAN :
            CanRecord /\ CallManaged(flag, None, fails)
    \/ \E fails \in BOOLEAN : CanRecord /\ CallRollback(None, fails)
    \/ \E fails \in BOOLEAN : CanRecord /\ CallRollbackUnlessManaged(None, fails)
    \/ Return

SpecBlock == InitBlock /\ [][NextBlock]_vars

\* the program with its transaction management notifications counted: the
\* fixture's receivers are connected once, then wrapped calls are made on both
\* connections
InitTally ==
    /\ receivers = Fixture
    /\ state = [a \in Aliases |-> <<>>]
    /\ dirty = [a \in Aliases |-> FALSE]
    /\ pending = [a \in Aliases |-> FALSE]
    /\ IS_DJANGO_12 \in BOOLEAN
    /\ call = NoCall
    /\ history = NoHistory
    /\ tally = [NoTally EXCEPT !.on = TRUE]

\* the counts of the connection of using can still grow
CanTally(using) ==
    /\ tally.pre[conn(using)] < MaxTally
    /\ tally.post[conn(using)] < MaxTally

NextTally ==
    \/ \E a \in Aliases : Write(a)
    \/ \E a \in Aliases, fails \in BOOLEAN : CanTally(a) /\ CallCommit(a, fails)
    \/ \E a \in Aliases, fails \in BOOLEAN :
            CanTally(a) /\ CallCommitUnlessManaged(a, fails)
    \/ \E a \in Aliases : CanTally(a) /\ CallEnter(a)
    \/ \E a \in Aliases, fails \in BOOLEAN : CanTally(a) /\ CallLeave(a, fails)
    \/ \E a \in Aliases, flag \in BOOLEAN, fails \in BOOLEAN :
            CanTally(a) /\ CallManaged(flag, a, fails)
    \/ \E a \in Aliases, fails \in BOOLEAN : CanTally(a) /\ CallRollback(a, fails)
    \/ \E a \in Aliases, fails \in BOOLEAN :
            CanTally(a) /\ CallRollbackUnlessManaged(a, fails)
    \/ Return

SpecTally == InitTally /\ [][NextTally]_vars

-----------------------------------------------------------------------------
(* Reading the record of a call *)

PreChannels == {"pre_commit", "pre_rollback", "pre_transaction_management"}

\* positions in the call's trace of the events of one type and name
Idx(type, name) ==
    {i \in DOMAIN call.ev : call.ev[i].type = type /\ call.ev[i].name = name}

\* positions of the dispatches on a channel, and of all dispatches
Sends(name) == Idx("send", name)
AllSends == {i \in DOMAIN call.ev : call.ev[i].type = "send"}

\* some receiver of the channel raises; the first that does
Raises(name) == \E i \in DOMAIN receivers[name] : receivers[name][i] = "raise"
FirstRaise(name) ==
    CHOOSE i \in DOMAIN receivers[name] :
        /\ receivers[name][i] = "raise"
        /\ \A j \in 1..(i - 1) : receivers[name][j] # "raise"

\* the host state of the call's alias when the call began, and now
WasDirty == call.before.dirty
WasManaged ==
    IF Len(call.before.state) > 0
    THEN call.before.state[Len(call.before.state)] ELSE TRANSACTIONS_MANAGED
WasDepth == Len(call.before.state)
Now == OfAlias(Host, conn(call.using))

\* the whole host state when the call began
HostBefore ==
    LET a == conn(call.using)
    IN  [state |-> [state EXCEPT ![a] = call.before.state],
         dirty |-> [dirty EXCEPT ![a] = call.before.dirty],
         pending |-> [pending EXCEPT ![a] = call.before.pending]]

\* the pre channel the wrapper of the call dispatches on before its yield,
\* "" when it dispatches none
WrapperPre ==
    CASE call.op = "commit" -> "pre_commit"
      [] call.op = "commit_unless_managed" /\ ~WasManaged -> "pre_commit"
      [] call.op = "managed" /\ ~call.flag /\ WasDirty -> "pre_commit"
      [] call.op = "rollback" -> "pre_rollback"
      [] call.op = "rollback_unless_managed" /\ ~WasManaged -> "pre_rollback"
      [] call.op = "leave_transaction_management" /\ WasDirty /\ ~IS_DJANGO_12
            -> "pre_rollback"
      [] call.op = "enter_transaction_management" -> "pre_transaction_management"
      [] OTHER -> ""

\* a receiver of the wrapper's own pre dispatch raises
Vetoed == WrapperPre # "" /\ Raises(WrapperPre)

-----------------------------------------------------------------------------
(* Claims *)

\* C1: when a receiver of the pre notification a wrapper dispatches raises,
\* the original function is not invoked in that call (nothing is committed or
\* rolled back either), the host state of the alias is what it was, the call
\* dispatches nothing on post_commit or post_rollback, and the caller gets
\* exactly the failure of the first raising receiver.  Under Django 1.2 the
\* same holds of the patched rollback() the host's leave calls.
C1_VetoPreventsOperation ==
    /\ Vetoed =>
        /\ call.ev[1] = Ev("send", WrapperPre, conn(call.using), 0)
        /\ \A i \in DOMAIN call.ev : call.ev[i].type \notin {"orig", "origend", "db"}
        /\ Now = call.before
        /\ Sends("post_commit") = {} /\ Sends("post_rollback") = {}
        /\ call.exc = HandlerError(WrapperPre, FirstRaise(WrapperPre))
    /\ (/\ call.op = "leave_transaction_management" /\ IS_DJANGO_12
        /\ WasDirty /\ WasDepth > 0 /\ Raises("pre_rollback")) =>
        /\ Idx("orig", "rollback") = {} /\ Idx("db", "rollback") = {}
        /\ Now.dirty /\ Now.pending = call.before.pending
        /\ Sends("post_rollback") = {}
        /\ call.exc = HandlerError("pre_rollback", FirstRaise("pre_rollback"))

\* C1 witness: a commit with writes pending is vetoed by the second receiver
\* of pre_commit
C1_Witness ==
    /\ call.op = "commit" /\ call.before.pending
    /\ call.exc = HandlerError("pre_commit", 2)

\* C2: a commit or rollback call in which no pre receiver raises and the
\* original returns dispatches exactly twice: its pre notification before the
\* original starts and its post notification after the original has returned;
\* the physical operation happens in between.
C2_CommitRollbackAlwaysBracket ==
    \A op \in {"commit", "rollback"} :
        LET pre == "pre_" \o op
            post == "post_" \o op
        IN  (call.op = op /\ ~Raises(pre) /\ ~call.fails) =>
            /\ ChannelsOf(call.ev) = <<pre, post>>
            /\ \E p \in Sends(pre), o \in Idx("orig", op), d \in Idx("db", op),
                  e \in Idx("origend", op), q \in Sends(post) :
                    /\ p < o /\ o < d /\ d < e /\ e < q
                    /\ call.ev[e].idx = 0
            /\ Cardinality(Idx("orig", op)) = 1
            /\ call.exc = NoExc

\* C2 witness: a commit on a clean alias outside transaction management
C2_Witness ==
    /\ call.op = "commit" /\ ~WasDirty /\ WasDepth = 0 /\ ~call.before.pending
    /\ ChannelsOf(call.ev) = <<"pre_commit", "post_commit">>

\* C3: when the original commit raises in a commit call, post_commit is not
\* dispatched, the caller gets that failure, and pre_commit was dispatched
\* once, before the original started.
C3_FailedCommitNoPost ==
    (call.op = "commit" /\ call.fails /\ ~Raises("pre_commit")) =>
        /\ ChannelsOf(call.ev) = <<"pre_commit">>
        /\ \E p \in Sends("pre_commit"), o \in Idx("orig", "commit") : p < o
        /\ call.exc = target_commit(HostBefore, call.using, call.fails).exc
        /\ call.exc = DatabaseError
        /\ Now = call.before

\* C3 witness: the commit of a dirty transaction fails
C3_Witness ==
    /\ call.op = "commit" /\ WasDirty /\ call.exc = DatabaseError
    /\ Idx("origend", "commit") # {}

\* what send_robust_and_log_errors must leave in the trace from the dispatch
\* at position s: every receiver invoked in order, then one log line for each
\* receiver that raised and none for the others
RobustAt(s) ==
    LET ch == call.ev[s].name
        snd == call.ev[s].sender
        n == Len(receivers[ch])
        bad == {i \in 1..n : receivers[ch][i] = "raise"}
        k == Cardinality(bad)
    IN  /\ s + n + k <= Len(call.ev)
        /\ \A i \in 1..n : call.ev[s + i] = Ev("recv", ch, snd, i)
        /\ \A j \in 1..k : /\ call.ev[s + n + j].type = "log"
                           /\ call.ev[s + n + j].name = ch
                           /\ call.ev[s + n + j].idx \in bad
        /\ \A i \in bad : Cardinality({j \in 1..k : call.ev[s + n + j].idx = i}) = 1
        /\ Cardinality(Idx("log", ch)) = k * Cardinality(Sends(ch))

\* C4: in every dispatch of post_commit or post_rollback all receivers of the
\* channel are invoked whichever of them raise, each raising receiver gets one
\* log line naming the channel, no failure of theirs reaches the caller (the
\* call returns normally when the original did), and in a leave the dispatch
\* of post_transaction_management still follows.
C4_PostHandlersIsolated ==
    \A ch \in {"post_commit", "post_rollback"} : \A s \in Sends(ch) :
        /\ RobustAt(s)
        /\ call.exc.channel # ch
        /\ \A e \in Idx("origend", call.op) :
                call.ev[e].idx = 0 => call.exc = NoExc
        /\ call.op = "leave_transaction_management" =>
                \E t \in Sends("post_transaction_management") : t > s

\* C4 witness: leaving a dirty block with a raising and a returning receiver
\* on post_rollback: both are invoked, one line is logged, and
\* post_transaction_management is dispatched afterwards
C4_Witness ==
    /\ call.op = "leave_transaction_management" /\ ~IS_DJANGO_12 /\ WasDirty
    /\ receivers["post_rollback"] = <<"raise", "ok">>
    /\ Cardinality(Idx("recv", "post_rollback")) = 2
    /\ Cardinality(Idx("log", "post_rollback")) = 1
    /\ Sends("post_transaction_management") # {}

LeaveError == target_leave_transaction_management(HostBefore, call.using, call.fails).exc

\* the parts of C5 that do not concern post_rollback: one dispatch of
\* post_transaction_management, after the original leave has finished, and the
\* caller gets what the original raised
LeaveNotifies ==
    /\ Cardinality(Sends("post_transaction_management")) = 1
    /\ \A t \in Sends("post_transaction_management") :
            /\ \E e \in Idx("origend", "leave_transaction_management") : e < t
            /\ \A i \in DOMAIN call.ev : i > t => call.ev[i].name = call.ev[t].name
    /\ Cardinality(Idx("orig", "leave_transaction_management")) = 1
    /\ call.exc = LeaveError
    /\ \A e \in Idx("origend", "leave_transaction_management") :
            call.ev[e].idx = (IF call.exc = NoExc THEN 0 ELSE 1)

PostRollbackFirst ==
    \E r \in Sends("post_rollback"), t \in Sends("post_transaction_management") : r < t

NoPreRaises == \A ch \in PreChannels : ~Raises(ch)

FollowsOriginal(q, pre) ==
    /\ q > 1 /\ call.ev[q - 1].type = "origend"
    /\ \E p \in Sends(pre) : p < q

\* C7 as stated: in a call each dispatch of pre_commit / pre_rollback is
\* followed by at most one dispatch of post_commit / post_rollback, and that
\* one comes only after an original function that finished without error.
C7_Original ==
    \A x \in {"commit", "rollback"} :
        /\ \A p \in Sends("pre_" \o x) :
              Cardinality({q \in Sends("post_" \o x) : q > p}) <= 1
        /\ \A q \in Sends("post_" \o x) :
              /\ FollowsOriginal(q, "pre_" \o x)
              /\ call.ev[q - 1].idx = 0

\* C7 amended: as stated, except that leave_transaction_management dispatches
\* post_rollback for a dirty transaction after the original leave has
\* finished although it raised.
C7_PostOnlyAfterSuccess ==
    \A x \in {"commit", "rollback"} :
        /\ \A p \in Sends("pre_" \o x) :
              Cardinality({q \in Sends("post_" \o x) : q > p}) <= 1
        /\ \A q \in Sends("post_" \o x) :
              /\ FollowsOriginal(q, "pre_" \o x)
              /\ \/ call.ev[q - 1].idx = 0
                 \/ /\ call.ev[q - 1].name = "leave_transaction_management"
                    /\ x = "rollback" /\ WasDirty /\ ~IS_DJANGO_12

\* C7 witness: a dirty block is left: one pre_rollback, then one post_rollback
\* right after the original leave finished by raising its management error
C7_Witness ==
    /\ call.op = "leave_transaction_management" /\ WasDirty /\ ~IS_DJANGO_12
    /\ Cardinality(Sends("pre_rollback")) = 1
    /\ \E q \in Sends("post_rollback") :
          /\ call.ev[q - 1] =
               Ev("origend", "leave_transaction_management", conn(call.using), 1)
          /\ Idx("db", "rollback") # {}

\* C8: a commit_unless_managed call on a managed alias dispatches nothing and
\* commits nothing (writes pending before are pending after); on an alias
\* that is not managed, when no pre_commit receiver raises and the commit
\* succeeds, it dispatches pre_commit, commits, then dispatches post_commit.
\* Managed is the host's is_managed when the call began.
C8_CommitUnlessManaged ==
    call.op = "commit_unless_managed" =>
        IF WasManaged
        THEN /\ \A i \in DOMAIN call.ev : call.ev[i].type \in {"orig", "origend"}
             /\ Now.pending = call.before.pending
             /\ call.exc = NoExc
        ELSE /\ Sends("pre_commit") # {}
             /\ (~Raises("pre_commit") /\ ~call.fails) =>
                  /\ ChannelsOf(call.ev) = <<"pre_commit", "post_commit">>
                  /\ \E p \in Sends("pre_commit"), d \in Idx("db", "commit"),
                        q \in Sends("post_commit") : p < d /\ d < q
                  /\ ~Now.pending
                  /\ call.exc = NoExc

\* C8 witness: commit_unless_managed inside a managed block with a write
\* pending: the original is called and nothing else happens
C8_Witness ==
    /\ call.op = "commit_unless_managed" /\ WasManaged /\ call.before.pending
    /\ Len(call.ev) = 2 /\ Now.pending

\* C9: a rollback_unless_managed call on a managed alias dispatches nothing
\* and rolls nothing back (writes pending before are pending after, for the
\* block's commit to commit); on an alias that is not managed, when no
\* pre_rollback receiver raises and the rollback succeeds, it dispatches
\* pre_rollback, rolls back, then dispatches post_rollback.
C9_RollbackUnlessManaged ==
    call.op = "rollback_unless_managed" =>
        IF WasManaged
        THEN /\ \A i \in DOMAIN call.ev : call.ev[i].type \in {"orig", "origend"}
             /\ Now.pending = call.before.pending
             /\ call.exc = NoExc
        ELSE /\ Sends("pre_rollback") # {}
             /\ (~Raises("pre_rollback") /\ ~call.fails) =>
                  /\ ChannelsOf(call.ev) = <<"pre_rollback", "post_rollback">>
                  /\ \E p \in Sends("pre_rollback"), d \in Idx("db", "rollback"),
                        q \in Sends("post_rollback") : p < d /\ d < q
                  /\ ~Now.pending
                  /\ call.exc = NoExc

\* C9 witness: rollback_unless_managed in autocommit with a write pending: the
\* write is rolled back between pre_rollback and post_rollback
C9_Witness ==
    /\ call.op = "rollback_unless_managed" /\ ~WasManaged /\ call.before.pending
    /\ ChannelsOf(call.ev) = <<"pre_rollback", "post_rollback">>
    /\ Idx("db", "rollback") # {} /\ ~Now.pending

\* C10: a managed(flag) call dispatches pre_commit exactly when flag is false
\* and the transaction was dirty when the call began, and dispatches nothing
\* at all otherwise; in that case, when no pre_commit receiver raises and the
\* original returns, pre_commit comes before the original, post_commit after
\* it, and the transaction is left clean.  A leave call on a clean
\* transaction dispatches no rollback notification, so the block that follows
\* managed(False) ends with post_transaction_management alone.
C10_ManagedFlag ==
    /\ call.op = "managed" =>
        LET should_commit == ~call.flag /\ WasDirty
        IN  /\ Sends("pre_commit") # {} <=> should_commit
            /\ ~should_commit => AllSends = {}
            /\ Sends("post_commit") # {} =>
                  should_commit /\ ~Raises("pre_commit") /\ call.exc = NoExc
            /\ (should_commit /\ ~Raises("pre_commit") /\ call.exc = NoExc) =>
                  /\ ChannelsOf(call.ev) = <<"pre_commit", "post_commit">>
                  /\ \E p \in Sends("pre_commit"), o \in Idx("orig", "managed"),
                        e \in Idx("origend", "managed"), q \in Sends("post_commit") :
                        p < o /\ o < e /\ e < q
                  /\ ~Now.dirty
    /\ (call.op = "leave_transaction_management" /\ ~WasDirty) =>
        /\ Sends("pre_rollback") = {} /\ Sends("post_rollback") = {}
        /\ WasDepth > 0 =>
              ChannelsOf(call.ev) = <<"post_transaction_management">>

\* C10 witness: managed(True) on a dirty transaction dispatches nothing
C10_Witness ==
    /\ call.op = "managed" /\ call.flag /\ WasDirty /\ WasDepth > 0
    /\ AllSends = {} /\ Now.dirty

NoSubscribers == \A c \in Channels : receivers[c] = <<>>

\* the outcome of the unwrapped original on the host state and the arguments
\* of the call
Unwrapped == TargetOf(call.op, HostBefore, call.using, call.flag, call.fails)

\* C15: with no receiver connected on any channel, a wrapped call leaves the
\* host in the state the unwrapped original would have left it in and the
\* caller gets the failure the original raises, or none.  (Every wrapped
\* function returns None, as the seven originals do.)
C15_TransparentWithoutSubscribers ==
    (call.op # "none" /\ NoSubscribers) =>
        /\ Host = Unwrapped.h
        /\ call.exc = Unwrapped.exc
        /\ \A i \in DOMAIN call.ev : call.ev[i].type \notin {"recv", "log"}

\* C15 witness: with no receiver connected, the commit that managed(False)
\* makes of a dirty transaction fails, and the caller gets that failure
C15_Witness ==
    /\ NoSubscribers
    /\ call.op = "managed" /\ ~call.flag /\ WasDirty /\ WasDepth > 0
    /\ call.exc = DatabaseError

\* C16 as stated: post_transaction_management is not dispatched by a leave
\* call whose original raises TransactionManagementError.
C16_Original ==
    (call.op = "leave_transaction_management"
        /\ call.exc = TransactionManagementError) =>
        Sends("post_transaction_management") = {}

C18_OriginalCalledOnce ==
    call.op # "none" =>
        /\ Cardinality(Idx("orig", call.op)) = (IF Vetoed THEN 0 ELSE 1)
        /\ Cardinality(Idx("origend", call.op)) = (IF Vetoed THEN 0 ELSE 1)
        /\ ~Vetoed => Host = Unwrapped.h

\* C18 witness: commit_unless_managed on a managed alias, where the wrapper
\* sends nothing, still calls the original
C18_Witness ==
    /\ call.op = "commit_unless_managed" /\ WasManaged /\ ~WasDirty
    /\ Cardinality(Idx("orig", "commit_unless_managed")) = 1
    /\ AllSends = {} /\ Now.dirty

\* C20: when a pre_rollback receiver raises in a leave call on a dirty
\* transaction (the wrapper sending the rollback notifications), the original
\* leave is not called, only pre_rollback is dispatched, the caller gets the
\* receiver's failure, and the alias is as deep in transaction management and
\* as dirty as before.
C20_VetoedLeaveStaysManaged ==
    (/\ call.op = "leave_transaction_management" /\ ~IS_DJANGO_12
     /\ WasDirty /\ Raises("pre_rollback")) =>
        /\ Idx("orig", "leave_transaction_management") = {}
        /\ ChannelsOf(call.ev) = <<"pre_rollback">>
        /\ Len(Now.state) = WasDepth /\ Now.state = call.before.state
        /\ Now.dirty
        /\ call.exc = HandlerError("pre_rollback", FirstRaise("pre_rollback"))

\* C20 witness: a vetoed leave inside a block: the block stays open
C20_Witness ==
    /\ call.op = "leave_transaction_management" /\ ~IS_DJANGO_12
    /\ WasDirty /\ WasDepth > 0
    /\ call.exc.type = "HandlerError"
    /\ Len(Now.state) = WasDepth

\* the senders of the dispatches of the call and of the receivers' calls
Senders ==
    {call.ev[i].sender : i \in {j \in DOMAIN call.ev :
                                    call.ev[j].type \in {"send", "recv"}}}

\* C14: every notification of a wrapped call has as sender the connection of
\* the alias passed as using: the default connection for None and for
\* "default", the alternate connection for "alternate".
C14_SenderIsConnectionOfUsing ==
    /\ call.using \in {None, "default"} => Senders \subseteq {"default"}
    /\ call.using = "alternate" => Senders \subseteq {"alternate"}

\* C14 witness: a leave call on the alternate alias, made while the default
\* alias is in a block, dispatches with the alternate connection as sender
C14_Witness ==
    /\ call.op = "leave_transaction_management" /\ call.using = "alternate"
    /\ Len(state["default"]) > 0
    /\ Senders = {"alternate"}
    /\ Cardinality(AllSends) = 3

\* the alias a wrapped call is not made on
Other(a) == CHOOSE o \in Aliases : o # a

\* the host with alias a as it is and the other alias as at start-up
Alone(a) ==
    [state |-> [x \in Aliases |-> IF x = a THEN state[a] ELSE <<>>],
     dirty |-> [x \in Aliases |-> IF x = a THEN dirty[a] ELSE FALSE],
     pending |-> [x \in Aliases |-> IF x = a THEN pending[a] ELSE FALSE]]

\* a wrapped call on alias a dispatches, raises and changes a's transaction
\* state as the same call does when the other alias was never used, and leaves
\* the other alias's transaction state as it is
CallIndependent ==
    LET a == conn(call'.using)
        o == Other(a)
        r == WrappedOf(call'.op, Alone(a), call'.using, call'.flag, call'.fails)
    IN  /\ call'.ev = r.ev
        /\ call'.exc = r.exc
        /\ state'[a] = r.h.state[a]
        /\ dirty'[a] = r.h.dirty[a]
        /\ pending'[a] = r.h.pending[a]
        /\ state'[o] = state[o]
        /\ dirty'[o] = dirty[o]
        /\ pending'[o] = pending[o]

\* C19: in every interleaving of calls on the two aliases, each step on one
\* alias notifies as it would had the other alias never been used, and does
\* not touch the other alias: the notifications of an alias are those of its
\* own operations run alone.
C19_AliasesIndependent ==
    [][(call = NoCall /\ call'.op # "none") => CallIndependent]_vars

\* C19 witness: the alternate alias's dirty block is left, with the rollback
\* notifications, while the default alias is in a clean block of its own
C19_Witness ==
    /\ call.op = "leave_transaction_management" /\ call.using = "alternate"
    /\ WasDirty /\ WasDepth > 0
    /\ Len(state["default"]) > 0 /\ ~dirty["default"]
    /\ Sends("pre_rollback") # {} /\ Sends("post_rollback") # {}

-----------------------------------------------------------------------------
(* Whole transaction management blocks *)

\* the notifications of the steps of a history, in order
RECURSIVE LogOf(_)
LogOf(entries) ==
    IF entries = <<>> THEN <<>> ELSE Head(entries).log \o LogOf(Tail(entries))

BlockLog == LogOf(history.entries)

\* the step at position i of the observed block
StepAt(i) == history.entries[i]
NumSteps == Len(history.entries)

\* a step that neither commits nor rolls back: a write, or managed(True)
Quiet(e) == e.op = "write" \/ (e.op = "managed" /\ e.flag)

\* the call that has just run is the leave that ends the observed block, which
\* began with a successful enter outside transaction management
BlockLeft ==
    /\ history.on /\ NumSteps >= 2
    /\ StepAt(1).op = "enter_transaction_management" /\ StepAt(1).exc = NoExc
    /\ StepAt(NumSteps).op = "leave_transaction_management"
    /\ call.op = "leave_transaction_management" /\ WasDepth = 1

C12_ExplicitFinishBlock ==
    (/\ BlockLeft /\ NumSteps >= 3
     /\ StepAt(NumSteps - 1).op \in {"commit", "rollback"}
     /\ StepAt(NumSteps - 1).exc = NoExc
     /\ StepAt(NumSteps - 1).dirty
     /\ \A i \in 2..(NumSteps - 2) : Quiet(StepAt(i))) =>
        /\ BlockLog =
             IF StepAt(NumSteps - 1).op = "commit"
             THEN <<"pre_transaction_management", "pre_commit",
                    "post_commit", "post_transaction_management">>
             ELSE <<"pre_transaction_management", "pre_rollback",
                    "post_rollback", "post_transaction_management">>
        /\ StepAt(NumSteps).log = <<"post_transaction_management">>
        /\ call.exc = NoExc

\* C12 witness: enter, managed(True), a write, commit, leave
C12_Witness ==
    /\ BlockLeft /\ NumSteps = 5
    /\ StepAt(2).op = "managed" /\ StepAt(2).flag
    /\ StepAt(3).op = "write"
    /\ StepAt(4).op = "commit" /\ StepAt(4).dirty /\ StepAt(4).exc = NoExc
    /\ Len(BlockLog) = 4

\* C13: a block that is entered on a clean connection and left with no write
\* and no other call than managed in between dispatches exactly
\* pre_transaction_management, post_transaction_management, touches the
\* database not at all and returns normally.
C13_CleanBlock ==
    (/\ BlockLeft /\ ~StepAt(1).dirty
     /\ \A i \in 2..(NumSteps - 1) : StepAt(i).op = "managed") =>
        /\ BlockLog = <<"pre_transaction_management",
                        "post_transaction_management">>
        /\ \A i \in DOMAIN call.ev : call.ev[i].type # "db"
        /\ ~WasDirty
        /\ call.exc = NoExc

\* C13 witness: enter, managed(True), leave, as commit_on_success runs a
\* function that writes nothing
C13_Witness ==
    /\ BlockLeft /\ NumSteps = 3
    /\ StepAt(2).op = "managed" /\ StepAt(2).flag
    /\ BlockLog = <<"pre_transaction_management",
                    "post_transaction_management">>

-----------------------------------------------------------------------------
(* Counting the transaction management notifications *)

\* C21 as stated: on each connection, post_transaction_management has been
\* dispatched at most as often as pre_transaction_management.
C21_Original ==
    \A a \in Aliases : tally.post[a] <= tally.pre[a]

====
